---- MODULE Spec2Model ----
(***************************************************************************)
(* Model of the month grid (MonthView / MonthDay / MonthViewBody), of the  *)
(* time-grid event block (EventItem) and of the parts of CalendarBody that *)
(* host them.                                                              *)
(*                                                                         *)
(* Instants: the source keeps instants as millisecond epoch integers.  The *)
(* model keeps them as whole HOURS since 1970-01-01T00:00Z so that real    *)
(* calendar dates stay inside TLC's integer range; every instant of the    *)
(* model is the source instant divided by 3 600 000.  Zones are fixed UTC  *)
(* offsets in whole hours (no daylight-saving transitions are modelled).   *)
(* Pixel and percentage arithmetic is exact rational arithmetic on pairs   *)
(* <<numerator, denominator>>; floating-point rounding is not modelled.    *)
(***************************************************************************)
EXTENDS Integers, Sequences, FiniteSets, TLC

\* ------------------------------------------------------------------------
\* Bounds of the model
\* ------------------------------------------------------------------------
MaxEvents == 2

MaxCellEvents == 4
\* The minutes of the visible hour range and of the events lie in 0..MaxMinute.
MaxMinute == 6
\* The largest number of events sharing one time slot.
MaxColumns == 3
\* The largest distance in days between the viewport start and an event.
MaxDaySpan == 3
\* The largest number of render passes of an EventItem that is followed.
MaxRenders == 3
\* The number of pages of the grid list.
MaxPages == 2
\* The longest time, in ms, a touch is followed.
MaxHoldMs == 300

\* ------------------------------------------------------------------------
\* Program constants
\* ------------------------------------------------------------------------
HOURS_IN_DAY == 24

GRID_DAYS == 42

GRID_WEEKS == 6

DAYS_IN_WEEK == 7

\* null where a date text is expected (toISODate of an invalid DateTime)
NullDate == << >>

UNDEFINED == "undefined"

\* ------------------------------------------------------------------------
\* JavaScript arithmetic
\* ------------------------------------------------------------------------
\* The remainder operator of JavaScript: the result takes the sign of the
\* dividend, so (-1) % 7 is -1.
JsRem(a, n) == IF a >= 0 THEN a % n ELSE 0 - ((0 - a) % n)

Min(a, b) == IF a <= b THEN a ELSE b

\* ------------------------------------------------------------------------
\* Calendar arithmetic of the date library (proleptic Gregorian calendar)
\* ------------------------------------------------------------------------
\* Day number (days since 1970-01-01) of the civil date y-m-d.
DaysFromCivil(y, m, d) ==
    LET yy  == IF m <= 2 THEN y - 1 ELSE y
        era == yy \div 400
        yoe == yy - era * 400
        mp  == IF m > 2 THEN m - 3 ELSE m + 9
        doy == (153 * mp + 2) \div 5 + d - 1
        doe == yoe * 365 + yoe \div 4 - yoe \div 100 + doy
    IN  era * 146097 + doe - 719468

\* Civil date of a day number, computed.
CivilOfDay(n) ==
    LET z   == n + 719468
        era == z \div 146097
        doe == z - era * 146097
        yoe == (doe - doe \div 1460 + doe \div 36524 - doe \div 146096) \div 365
        doy == doe - (365 * yoe + yoe \div 4 - yoe \div 100)
        mp  == (5 * doy + 2) \div 153
        d   == doy - (153 * mp + 2) \div 5 + 1
        m   == IF mp < 10 THEN mp + 3 ELSE mp - 9
        y   == yoe + era * 400 + (IF m <= 2 THEN 1 ELSE 0)
    IN  [year |-> y, month |-> m, day |-> d]

\* The days the model's instants fall on: 2024-01-01 .. 2026-04-30.
CalendarDays == DaysFromCivil(2024, 1, 1)..DaysFromCivil(2026, 4, 30)

\* The civil dates of those days, computed once.
CivilTable == [n \in CalendarDays |-> CivilOfDay(n)]

\* Civil date of a day number.
CivilFromDays(n) == CivilTable[n]

\* A DateTime value: an instant seen in a zone, or the invalid DateTime.
DateTime(ts, zone) == [valid |-> TRUE, ts |-> ts, zone |-> zone]

InvalidDateTime == [valid |-> FALSE, ts |-> 0, zone |-> 0]

\* Local day number of a DateTime (the day its wall clock shows).
LocalDay(dt) == (dt.ts + dt.zone) \div HOURS_IN_DAY

DtMonth(dt) == CivilFromDays(LocalDay(dt)).month

DtDay(dt) == CivilFromDays(LocalDay(dt)).day

\* DateTime.weekday: 1 is Monday and 7 is Sunday.
DtWeekday(dt) == ((LocalDay(dt) + 3) % 7) + 1

\* DateTime.startOf('month')
StartOfMonth(dt) ==
    LET c == CivilFromDays(LocalDay(dt))
    IN  DateTime(DaysFromCivil(c.year, c.month, 1) * HOURS_IN_DAY - dt.zone, dt.zone)

\* DateTime.startOf('day')
StartOfDay(dt) == DateTime(LocalDay(dt) * HOURS_IN_DAY - dt.zone, dt.zone)

\* DateTime.plus({ days: n }) and DateTime.minus({ days: n })
PlusDays(dt, n) == DateTime(dt.ts + n * HOURS_IN_DAY, dt.zone)

MinusDays(dt, n) == DateTime(dt.ts - n * HOURS_IN_DAY, dt.zone)

ToMillis(dt) == dt.ts

\* DateTime.toISODate(): the text YYYY-MM-DD of the local date, kept as the
\* triple of its fields; null for the invalid DateTime.
ToISODate(dt) ==
    IF dt.valid
    THEN LET c == CivilFromDays(LocalDay(dt)) IN <<c.year, c.month, c.day>>
    ELSE NullDate

\* ------------------------------------------------------------------------
\* Date utilities of the repository (utils/dateUtils)
\* ------------------------------------------------------------------------
\* The zone parseDateTime uses when the caller passes no options.
DefaultZone == 0

\* An event's start field: a numeric instant / well-formed ISO text, or a
\* text that cannot be parsed.
GoodStart(ts) == [kind |-> "instant", ts |-> ts]

BadStart == [kind |-> "unparseable", ts |-> 0]

\* parseDateTime(input, { zone }).  For an unparseable text the date library
\* either throws (its throwOnInvalid setting) or yields the invalid DateTime.
ParseDateTime(start, zone, throws) ==
    IF start.kind = "instant"
    THEN [threw |-> FALSE, value |-> DateTime(start.ts, zone)]
    ELSE IF throws
         THEN [threw |-> TRUE, value |-> InvalidDateTime]
         ELSE [threw |-> FALSE, value |-> InvalidDateTime]

\* parseDateTime(unix): a numeric instant always parses.
ParseUnix(unix) == DateTime(unix, DefaultZone)

\* dateTimeToISOString(date, timezone): the date-only ISO text of the
\* instant resolved in the given zone.
DateTimeToISOString(dt, zone) == ToISODate(DateTime(dt.ts, zone))

\* ------------------------------------------------------------------------
\* State
\* ------------------------------------------------------------------------
VARIABLES
    props,            \* MonthViewProps: dateUnix, events, onPressDay,
                      \*   onPressEvent, renderEvent, renderDayItem
    firstDay,         \* useCalendar().firstDay
    timezone,         \* useTimezone(): UTC offset in hours
    currentDateUnix,  \* useNowIndicator().currentDateUnix
    actions,          \* useActions(): onPressDayNumber, onPressEvent
    throwOnInvalid,   \* whether the date parser throws on unparseable text
    layout,           \* "spacious" (cap 3) or "compact" (cap 1) day cell
    hosted,           \* TRUE when MonthView is rendered by MonthViewBody
    hostEvents,       \* the event collection the host application supplies
    monthData,        \* MonthView.monthData of the last render
    weekDays,         \* MonthView.weekDays of the last render
    warnings,         \* console.warn calls of the last render, per event
    threw,            \* TRUE when the last render threw
    dayCells,         \* the MonthDay element of every cell of the last render
    calls,            \* callback invocations made by the last press
    pressed,          \* the target of the last press
    mounted,          \* TRUE once MonthView has rendered
    body,             \* useBody(): start, end, rightEdgeSpacing,
                      \*   overlapEventsSpacing, columnWidth, resourcePerPage,
                      \*   enableResourceScroll
    startUnix,        \* EventItemProps.startUnix: the viewport's start instant
    visibleDates,     \* EventItemProps.visibleDates: the keys of the map
    totalResources,   \* EventItemProps.totalResources (0 when not passed)
    packedEvents,     \* the PackedEvents of the EventItems on screen
    blocks,           \* the geometry of every EventItem of the last render
    itemProps,        \* EventItemProps: renderEvent, onPressEvent,
                      \*   onLongPressEvent, isDragging
    renderCount,      \* render passes of the EventItems so far
    lastRequest,      \* the last re-render request: the prop it changed and
                      \*   the render passes it caused
    eventCalls,       \* calls to the host's functions made by the last step
    numberOfDays,     \* useCalendar().numberOfDays
    columns,          \* useCalendar().columns
    visibleDatesArray, \* calendarData.visibleDatesArray
    onRefresh,        \* useActions().onRefresh
    visibleDateUnix,  \* visibleDateUnix.current
    platform,         \* Platform.OS
    grid,             \* the list of the grid and its rendered pages
    refreshControl,   \* the refreshControl prop of the scroll view
    refreshCalls,     \* calls of onRefresh made by the last step
    bodyMounted,      \* TRUE once CalendarBody has rendered
    touch,            \* the touch on the body: down or not, and for how long
    gestures          \* state of the pinch, drag-event and drag-to-create
                      \*   gestures

monthVars == <<props, firstDay, timezone, currentDateUnix, actions,
               throwOnInvalid, layout, hosted, hostEvents, monthData,
               weekDays, warnings, threw, dayCells, calls, pressed, mounted>>

eventVars == <<body, startUnix, visibleDates, totalResources, packedEvents,
               blocks>>

itemVars == <<itemProps, renderCount, lastRequest, eventCalls>>

bodyVars == <<numberOfDays, columns, visibleDatesArray, onRefresh,
              visibleDateUnix, platform, grid, refreshControl, refreshCalls,
              bodyMounted, touch, gestures>>

vars == <<monthVars, eventVars, itemVars, bodyVars>>

\* ------------------------------------------------------------------------
\* MonthView
\* ------------------------------------------------------------------------
\* The localized short weekday names (useLocale().weekDayShort), indexed
\* from 0; index 0 holds Monday's name.
weekDayShort == <<"Mon", "Tue", "Wed", "Thu", "Fri", "Sat", "Sun">>

\* weekDayShort[dayIndex] of JavaScript: undefined outside the table.
WeekDayShortAt(dayIndex) ==
    IF dayIndex \in 0..(Len(weekDayShort) - 1)
    THEN weekDayShort[dayIndex + 1]
    ELSE UNDEFINED

\* DayEventsFilter with the event parsed in the default zone instead of the
\* active timezone.
DayEventsFilter_DefaultZone(event, dayDate, tz, throws) ==
    LET p == ParseDateTime(event.start, DefaultZone, throws)
    IN  IF p.threw
        THEN [keep |-> FALSE, warn |-> TRUE, threw |-> FALSE]
        ELSE [keep  |-> ToISODate(p.value) = ToISODate(dayDate),
              warn  |-> FALSE,
              threw |-> FALSE]

\* The callback of events.filter in monthData: the try block, and the catch
\* block that warns and drops the event.
DayEventsFilter(event, dayDate, tz, throws) ==
    LET p == ParseDateTime(event.start, tz, throws)
    IN  IF p.threw
        THEN [keep |-> FALSE, warn |-> TRUE, threw |-> FALSE]
        ELSE [keep  |-> ToISODate(p.value) = ToISODate(dayDate),
              warn  |-> FALSE,
              threw |-> FALSE]

\* StartOfCalendar without the "+ 7" that keeps the remainder non-negative.
StartOfCalendar_NoWrap(dateUnix, fd) ==
    LET currentDate    == ParseUnix(dateUnix)
        startOfMonth   == StartOfMonth(currentDate)
        firstDayOfWeek == DtWeekday(startOfMonth)
        diffToFirstDay == JsRem(firstDayOfWeek - fd, 7)
    IN  MinusDays(startOfMonth, diffToFirstDay)

\* The origin of the grid: startOfCalendar.
StartOfCalendar(dateUnix, fd) ==
    LET currentDate    == ParseUnix(dateUnix)
        startOfMonth   == StartOfMonth(currentDate)
        firstDayOfWeek == DtWeekday(startOfMonth)
        diffToFirstDay == JsRem(firstDayOfWeek - fd + 7, 7)
    IN  MinusDays(startOfMonth, diffToFirstDay)

\* dayDate of iteration i of the loop of monthData.
DayDate(startOfCalendar, i) == PlusDays(startOfCalendar, i)

\* What the filter callback does for every iteration i (0..41) and every
\* event k of the list.
FilterOutcomes(startOfCalendar, events, tz, throws) ==
    [i \in 0..(GRID_DAYS - 1) |->
        [k \in 1..Len(events) |->
            DayEventsFilter(events[k], DayDate(startOfCalendar, i), tz, throws)]]

\* events.filter(...) of iteration i: the events kept, in list order.
DayEvents(events, outcome) ==
    LET kept == SelectSeq([k \in 1..Len(events) |-> k],
                          LAMBDA k : outcome[k].keep)
    IN  [j \in 1..Len(kept) |-> events[kept[j]]]

\* DayCell with isCurrentMonth decided by "not before the 1st of the month"
\* instead of by the month number.
DayCell_FromMonthStart(startOfCalendar, currentDate, now, events, outcome, i) ==
    [dateUnix       |-> ToMillis(DayDate(startOfCalendar, i)),
     date           |-> DayDate(startOfCalendar, i),
     isCurrentMonth |-> ToMillis(DayDate(startOfCalendar, i))
                            >= ToMillis(StartOfMonth(currentDate)),
     isToday        |-> ToMillis(DayDate(startOfCalendar, i)) = now,
     events         |-> DayEvents(events, outcome)]

\* The record pushed by iteration i of the loop of monthData.
DayCell(startOfCalendar, currentDate, now, events, outcome, i) ==
    [dateUnix       |-> ToMillis(DayDate(startOfCalendar, i)),
     date           |-> DayDate(startOfCalendar, i),
     isCurrentMonth |-> DtMonth(DayDate(startOfCalendar, i)) = DtMonth(currentDate),
     isToday        |-> ToMillis(DayDate(startOfCalendar, i)) = now,
     events         |-> DayEvents(events, outcome)]

\* TRUE when an exception leaves the loop of monthData.
Escaped(outcomes) ==
    \E i \in DOMAIN outcomes : \E k \in DOMAIN outcomes[i] : outcomes[i][k].threw

\* The loop of monthData over the outcomes of its filter callback.
MonthLoop(startOfCalendar, currentDate, now, events, outcomes) ==
    [threw    |-> Escaped(outcomes),
     days     |-> IF Escaped(outcomes)
                  THEN << >>
                  ELSE [i \in 1..GRID_DAYS |->
                          DayCell(startOfCalendar, currentDate, now, events,
                                  outcomes[i - 1], i - 1)],
     warnings |-> [k \in 1..Len(events) |->
                     Cardinality({i \in DOMAIN outcomes : outcomes[i][k].warn})]]

\* The useMemo body of monthData: the 42 day cells, the warnings it logged
\* for each event, and whether an exception escaped it.
MonthData(dateUnix, fd, now, events, tz, throws) ==
    MonthLoop(StartOfCalendar(dateUnix, fd), ParseUnix(dateUnix), now, events,
              FilterOutcomes(StartOfCalendar(dateUnix, fd), events, tz, throws))

\* The useMemo body of weekDays.
WeekDays(fd) ==
    [n \in 1..DAYS_IN_WEEK |-> WeekDayShortAt(JsRem(fd + (n - 1) - 1, 7))]

\* The useMemo body of weeks: six slices of seven cells.
Weeks(days) ==
    [w \in 1..GRID_WEEKS |->
        SubSeq(days, (w - 1) * DAYS_IN_WEEK + 1,
               Min(w * DAYS_IN_WEEK, Len(days)))]

\* ------------------------------------------------------------------------
\* MonthDay
\* ------------------------------------------------------------------------
SPACIOUS_CAP == 3

COMPACT_CAP == 1

\* The number of chips a day cell shows: events.slice(0, 3) in the spacious
\* layout, events.slice(0, 1) in the compact layout.
EventCap(lay) == IF lay = "spacious" THEN SPACIOUS_CAP ELSE COMPACT_CAP

\* What fills a chip: the spacious layout calls renderEvent when it is
\* supplied; the compact layout always renders the title.
ChipContent(lay, p) ==
    IF lay = "spacious" /\ p.renderEvent # UNDEFINED
    THEN "renderEvent"
    ELSE "title"

\* MonthDay with the overflow label shown from n >= cap on.
MonthDay_OverflowAtCap(cell, p, lay) ==
    IF p.renderDayItem # UNDEFINED
    THEN [custom   |-> TRUE,
          chips    |-> << >>,
          overflow |-> [shown |-> FALSE, count |-> 0]]
    ELSE [custom   |-> FALSE,
          chips    |-> [k \in 1..Min(EventCap(lay), Len(cell.events)) |->
                          [event   |-> cell.events[k],
                           content |-> ChipContent(lay, p)]],
          overflow |-> [shown |-> Len(cell.events) >= EventCap(lay),
                        count |-> IF Len(cell.events) >= EventCap(lay)
                                  THEN Len(cell.events) - EventCap(lay)
                                  ELSE 0]]

\* The element tree MonthDay returns for one cell.
MonthDay(cell, p, lay) ==
    IF p.renderDayItem # UNDEFINED
    THEN [custom   |-> TRUE,
          chips    |-> << >>,
          overflow |-> [shown |-> FALSE, count |-> 0]]
    ELSE LET n   == Len(cell.events)
             cap == EventCap(lay)
         IN  [custom   |-> FALSE,
              chips    |-> [k \in 1..Min(cap, n) |->
                              [event   |-> cell.events[k],
                               content |-> ChipContent(lay, p)]],
              overflow |-> [shown |-> n > cap,
                            count |-> IF n > cap THEN n - cap ELSE 0]]

NoEvent == [id |-> 0, start |-> BadStart]

Call(slot, fn, date, event) ==
    [slot |-> slot, fn |-> fn, date |-> date, event |-> event]

\* MonthDay.dateString
DateString(cell, tz) == DateTimeToISOString(ParseUnix(cell.dateUnix), tz)

\* MonthDay.handlePressDay: the callbacks it invokes, in order.
HandlePressDay(cell, p, acts, tz) ==
    LET dateString == DateString(cell, tz)
    IN  (IF p.onPressDay # UNDEFINED
         THEN << Call("onPressDay", p.onPressDay, dateString, NoEvent) >>
         ELSE << >>)
        \o
        (IF acts.onPressDayNumber # UNDEFINED
         THEN << Call("onPressDayNumber", acts.onPressDayNumber,
                      dateString, NoEvent) >>
         ELSE << >>)

\* MonthDay.handlePressEvent
HandlePressEvent(event, p) ==
    IF p.onPressEvent # UNDEFINED
    THEN << Call("onPressEvent", p.onPressEvent, NullDate, event) >>
    ELSE << >>

\* PressOnChip with the press also reaching the cell's own touchable.
PressOnChip_Bubbles(cell, k, p, lay, acts, tz) ==
    HandlePressEvent(MonthDay(cell, p, lay).chips[k].event, p)
        \o HandlePressDay(cell, p, acts, tz)

\* A touch on a chip: the chip's TouchableOpacity lies inside the cell's
\* TouchableOpacity, and the innermost touchable takes the press.
PressOnChip(cell, k, p, lay, acts, tz) ==
    HandlePressEvent(MonthDay(cell, p, lay).chips[k].event, p)

\* ------------------------------------------------------------------------
\* MonthViewBody and the month page of CalendarBody
\* ------------------------------------------------------------------------
MONTH_SENTINEL == 30

\* The props CalendarBody._renderTimeSlots gives to MonthViewBody.
MonthPageProps(dateUnixByIndex, acts, bodyRenderEvent) ==
    [dateUnix      |-> dateUnixByIndex,
     onPressDay    |-> acts.onPressDayNumber,
     onPressEvent  |-> acts.onPressEvent,
     renderEvent   |-> bodyRenderEvent,
     renderDayItem |-> UNDEFINED]

\* The event list MonthViewBody hands to MonthView.
MonthViewBodyEvents(collection, dateUnix) == << >>

\* The props MonthViewBody gives to MonthView.
MonthViewBody(p, collection) ==
    [dateUnix      |-> p.dateUnix,
     events        |-> MonthViewBodyEvents(collection, p.dateUnix),
     onPressDay    |-> p.onPressDay,
     onPressEvent  |-> p.onPressEvent,
     renderEvent   |-> p.renderEvent,
     renderDayItem |-> p.renderDayItem]

\* ------------------------------------------------------------------------
\* Numbers of the EventItem geometry: exact fractions num / den with den > 0;
\* den = 0 stands for a value that is not finite (division by zero).
\* ------------------------------------------------------------------------
Num(n) == [num |-> n, den |-> 1]

Abs(n) == IF n < 0 THEN 0 - n ELSE n

RECURSIVE Gcd(_, _)
Gcd(a, b) == IF b = 0 THEN a ELSE Gcd(b, a % b)

\* The fraction num / den in lowest terms (den > 0).
Frac(num, den) ==
    [num |-> num \div Gcd(Abs(num), den), den |-> den \div Gcd(Abs(num), den)]

Plus(a, b) == Frac(a.num * b.den + b.num * a.den, a.den * b.den)

Minus(a, b) == Frac(a.num * b.den - b.num * a.den, a.den * b.den)

Times(a, b) == Frac(a.num * b.num, a.den * b.den)

Over(a, b) ==
    IF b.num > 0 THEN Frac(a.num * b.den, a.den * b.num)
    ELSE IF b.num < 0
         THEN Frac(0 - a.num * b.den, 0 - a.den * b.num)
         ELSE [num |-> a.num, den |-> 0]

Finite(a) == a.den > 0

Leq(a, b) == a.num * b.den <= b.num * a.den

Less(a, b) == a.num * b.den < b.num * a.den

Same(a, b) == a.num * b.den = b.num * a.den

\* ------------------------------------------------------------------------
\* EventItem
\* ------------------------------------------------------------------------
\* A PackedEvent: an event with its _internal layout record. A field that
\* is absent (undefined) is kept as 0, which is as falsy as undefined.
PackedEvent(id, internal) == [id |-> id, _internal |-> internal]

Internal(duration, startMinutes, eventStartUnix, total, index, columnSpan, widthPercentage, xOffsetPercentage, resourceIndex) ==
    [duration          |-> duration,
     startMinutes      |-> startMinutes,
     startUnix         |-> eventStartUnix,
     total             |-> total,
     index             |-> index,
     columnSpan        |-> columnSpan,
     widthPercentage   |-> widthPercentage,
     xOffsetPercentage |-> xOffsetPercentage,
     resourceIndex     |-> resourceIndex]

\* The clamp without the clip of the duration to the range length.
ClampedData_NoClip(in, b) ==
    LET newStart == in.startMinutes - b.start
        duration == in.duration
    IN  IF newStart < 0
        THEN [totalDuration |-> duration + newStart, startMinutes |-> 0]
        ELSE [totalDuration |-> duration, startMinutes |-> newStart]

\* EventItem.data: the clamp of the duration to the visible hour range.
ClampedData(in, b) ==
    LET maxDuration == b.end - b.start
        newStart    == in.startMinutes - b.start
        duration    == Min(in.duration, maxDuration)
    IN  IF newStart < 0
        THEN [totalDuration |-> duration + newStart, startMinutes |-> 0]
        ELSE [totalDuration |-> duration, startMinutes |-> newStart]

\* The loops of EventItem.data over the days from dayUnix up to limitUnix:
\* every day that is not a key of visibleDates moves diffDays by step.
RECURSIVE DayLoop(_, _, _, _, _)
DayLoop(dayUnix, limitUnix, visible, step, diffDays) ==
    IF dayUnix < limitUnix
    THEN DayLoop(ToMillis(PlusDays(ParseUnix(dayUnix), 1)), limitUnix,
                 visible, step,
                 IF ToMillis(StartOfDay(ParseUnix(dayUnix))) \in visible
                 THEN diffDays
                 ELSE diffDays + step)
    ELSE diffDays

\* diffDays as the plain difference in calendar days.
DiffDays_Calendar(eventStartUnix, viewStartUnix, visible) ==
    (eventStartUnix - viewStartUnix) \div HOURS_IN_DAY

\* EventItem.data.diffDays
DiffDays(eventStartUnix, viewStartUnix, visible) ==
    IF eventStartUnix < viewStartUnix
    THEN DayLoop(eventStartUnix, viewStartUnix, visible, 1,
                 (eventStartUnix - viewStartUnix) \div HOURS_IN_DAY)
    ELSE DayLoop(viewStartUnix, eventStartUnix, visible, 0 - 1,
                 (eventStartUnix - viewStartUnix) \div HOURS_IN_DAY)

\* EventItem.childColumns
ChildColumns(b, resources) ==
    IF b.enableResourceScroll THEN b.resourcePerPage
    ELSE IF resources # 0 /\ resources > 0 THEN resources ELSE 1

\* EventItem.availableWidth
AvailableWidth(b, childColumns) ==
    Minus(Over(Num(b.columnWidth), Num(childColumns)), Num(b.rightEdgeSpacing))

\* widthPercent without the share of the overlap spacing.
WidthPercent_NoSpacing(in, b, childColumns) ==
    IF in.total # 0 /\ in.columnSpan # 0
    THEN LET availableWidth == AvailableWidth(b, childColumns)
             eventWidth     == Times(Over(availableWidth, Num(in.total)),
                                     Num(in.columnSpan))
         IN  Over(eventWidth, availableWidth)
    ELSE IF in.widthPercentage # 0
         THEN Over(Num(in.widthPercentage), Num(100))
         ELSE Num(1)

\* EventItem.widthPercent
WidthPercent(in, b, childColumns) ==
    IF in.total # 0 /\ in.columnSpan # 0
    THEN LET availableWidth == AvailableWidth(b, childColumns)
             totalColumns   == in.total - in.columnSpan
             overlapSpacing == Over(Num(totalColumns * b.overlapEventsSpacing),
                                    Num(in.total))
             eventWidth     == Minus(Times(Over(availableWidth, Num(in.total)),
                                           Num(in.columnSpan)),
                                     overlapSpacing)
         IN  Over(eventWidth, availableWidth)
    ELSE IF in.widthPercentage # 0
         THEN Over(Num(in.widthPercentage), Num(100))
         ELSE Num(1)

\* EventItem.eventPosX
EventPosX(in, b, childColumns, diffDays, availableWidth, eventWidth) ==
    LET colWidth    == Over(Num(b.columnWidth), Num(childColumns))
        startOffset == IF in.resourceIndex # 0
                       THEN Times(Num(IF b.enableResourceScroll
                                      THEN JsRem(in.resourceIndex,
                                                 b.resourcePerPage)
                                      ELSE in.resourceIndex),
                                  colWidth)
                       ELSE Num(0)
        left        == Plus(Times(Num(diffDays), colWidth), startOffset)
    IN  IF in.xOffsetPercentage # 0
        THEN Plus(left, Times(availableWidth,
                              Over(Num(in.xOffsetPercentage), Num(100))))
        ELSE IF in.columnSpan # 0 /\ in.index # 0
             THEN Plus(left, Times(Plus(eventWidth,
                                        Num(b.overlapEventsSpacing)),
                                   Over(Num(in.index), Num(in.columnSpan))))
             ELSE left

\* The container style with the height taken as (totalDuration + 1).
ContainerStyle_NoSeam(data, timeRange, eventWidth, eventPosX, diffDays) ==
    [width         |-> eventWidth,
     eventPosX     |-> eventPosX,
     left          |-> Plus(eventPosX, Num(1)),
     height        |-> Times(Over(Num(data.totalDuration + 1), Num(timeRange)),
                             Num(100)),
     top           |-> Times(Over(Num(data.startMinutes + 1), Num(timeRange)),
                             Num(100)),
     totalDuration |-> data.totalDuration,
     startMinutes  |-> data.startMinutes,
     diffDays      |-> diffDays]

\* The container style of EventItem: width and left in points, height and
\* top in percent of the visible time range; with the values of data.
ContainerStyle(data, timeRange, eventWidth, eventPosX, diffDays) ==
    [width         |-> eventWidth,
     eventPosX     |-> eventPosX,
     left          |-> Plus(eventPosX, Num(1)),
     height        |-> Times(Over(Num(data.totalDuration - 1), Num(timeRange)),
                             Num(100)),
     top           |-> Times(Over(Num(data.startMinutes + 1), Num(timeRange)),
                             Num(100)),
     totalDuration |-> data.totalDuration,
     startMinutes  |-> data.startMinutes,
     diffDays      |-> diffDays]

\* One EventItem with its width known.
EventItemPlaced(in, b, childColumns, diffDays, availableWidth, eventWidth) ==
    ContainerStyle(ClampedData(in, b), b.end - b.start, eventWidth,
                   EventPosX(in, b, childColumns, diffDays, availableWidth,
                             eventWidth),
                   diffDays)

\* One EventItem with its column count known.
EventItemInColumns(in, b, childColumns, diffDays, availableWidth) ==
    EventItemPlaced(in, b, childColumns, diffDays, availableWidth,
                    Times(WidthPercent(in, b, childColumns), availableWidth))

\* The render of one EventItem.
EventItem(event, viewStartUnix, visible, resources, b) ==
    EventItemInColumns(event._internal, b, ChildColumns(b, resources),
                       DiffDays(event._internal.startUnix, viewStartUnix,
                                visible),
                       AvailableWidth(b, ChildColumns(b, resources)))

\* A call of a host function by an EventItem, with the event it passes.
EventCall(slot, fn, event) == [slot |-> slot, fn |-> fn, event |-> event]

\* The calls one render pass of an EventItem makes: renderEvent, when it is
\* supplied, gets eventInput.
RenderCalls(eventInput, ip) ==
    IF ip.renderEvent # UNDEFINED
    THEN << EventCall("renderEvent", ip.renderEvent, eventInput) >>
    ELSE << >>

\* The calls of one render pass of every EventItem of a list.
AllRenderCalls(events, ip) ==
    IF ip.renderEvent # UNDEFINED
    THEN [k \in 1..Len(events) |-> RenderCalls(events[k], ip)[1]]
    ELSE << >>

\* EventItem._onPressEvent
OnPressEventItem(eventInput, ip) ==
    IF ip.onPressEvent # UNDEFINED
    THEN << EventCall("onPressEvent", ip.onPressEvent, eventInput) >>
    ELSE << >>

\* EventItem._onLongPressEvent
OnLongPressEventItem(eventInput, ip) ==
    << EventCall("onLongPressEvent", ip.onLongPressEvent, eventInput) >>

\* The props of one EventItem as React.memo sees them.
MemoProps(event, viewStartUnix, visible, resources, ip) ==
    [event            |-> event,
     startUnix        |-> viewStartUnix,
     visibleDates     |-> visible,
     totalResources   |-> resources,
     renderEvent      |-> ip.renderEvent,
     onPressEvent     |-> ip.onPressEvent,
     onLongPressEvent |-> ip.onLongPressEvent,
     isDragging       |-> ip.isDragging]

\* The comparator with totalResources among the compared props.
AreEqual_WithResources(prev, next) ==
    /\ prev.event = next.event
    /\ prev.visibleDates = next.visibleDates
    /\ prev.startUnix = next.startUnix
    /\ prev.totalResources = next.totalResources
    /\ prev.renderEvent = next.renderEvent
    /\ prev.isDragging = next.isDragging
    /\ prev.onPressEvent = next.onPressEvent
    /\ prev.onLongPressEvent = next.onLongPressEvent

\* The comparator of React.memo(EventItem, ...): TRUE skips the render.
AreEqual(prev, next) ==
    /\ prev.event = next.event
    /\ prev.visibleDates = next.visibleDates
    /\ prev.startUnix = next.startUnix
    /\ prev.renderEvent = next.renderEvent
    /\ prev.isDragging = next.isDragging
    /\ prev.onPressEvent = next.onPressEvent
    /\ prev.onLongPressEvent = next.onLongPressEvent

\* ------------------------------------------------------------------------
\* CalendarBody
\* ------------------------------------------------------------------------
\* The long-press threshold of the drag gestures on Android, in ms.
LONG_PRESS_MS == 200

\* visibleDatesArray[pageIndex] of a 0-based array; 0 stands for undefined.
VisibleDateAt(arr, pageIndex) ==
    IF pageIndex + 1 \in 1..Len(arr) THEN arr[pageIndex + 1] ELSE 0

Page(renderer, pageIndex, dateUnix) ==
    [renderer |-> renderer, pageIndex |-> pageIndex, dateUnix |-> dateUnix]

\* CalendarBody._renderTimeSlots
RenderTimeSlots(index, cols, arr, nDays) ==
    IF VisibleDateAt(arr, index * cols) = 0
    THEN Page("null", index * cols, 0)
    ELSE IF nDays = MONTH_SENTINEL
         THEN Page("MonthViewBody", index * cols,
                   VisibleDateAt(arr, index * cols))
         ELSE Page("BodyItem", index * cols, VisibleDateAt(arr, index * cols))

\* CalendarBody._renderResourceItem
RenderResourceItem(index) == Page("BodyResourceItem", index, 0)

\* The list CalendarBody puts in the grid, with the pages it renders: the
\* resource-paged list when resource scrolling is enabled, else the
\* date-paged list, which renders _renderTimeSlots for every page index.
GridList(b, cols, arr, nDays, count) ==
    IF b.enableResourceScroll
    THEN [list  |-> "ResourceListView",
          pages |-> [i \in 1..count |-> RenderResourceItem(i - 1)]]
    ELSE [list  |-> "CalendarListView",
          pages |-> [i \in 1..count |->
                        RenderTimeSlots(i - 1, cols, arr, nDays)]]

\* The refreshControl prop of the vertical scroll view.
RefreshControl(refresh) ==
    [exists |-> refresh # UNDEFINED, refreshing |-> FALSE]

\* _onRefresh calling the callback twice.
OnRefresh_Twice(refresh, current) ==
    IF refresh # UNDEFINED
    THEN << Call("onRefresh", refresh,
                 DateTimeToISOString(ParseUnix(current), DefaultZone),
                 NoEvent),
            Call("onRefresh", refresh,
                 DateTimeToISOString(ParseUnix(current), DefaultZone),
                 NoEvent) >>
    ELSE << >>

\* CalendarBody._onRefresh: the calls it makes.
OnRefresh(refresh, current) ==
    IF refresh # UNDEFINED
    THEN IF DateTimeToISOString(ParseUnix(current), DefaultZone) # NullDate
         THEN << Call("onRefresh", refresh,
                      DateTimeToISOString(ParseUnix(current), DefaultZone),
                      NoEvent) >>
         ELSE << >>
    ELSE << >>

GestureNames == {"pinch", "dragEvent", "dragToCreate"}

\* composedGesture with the drag gestures activating at once on Android.
ComposedGesture_NoLongPress(os) ==
    [composition |-> "race",
     longPress   |-> [g \in GestureNames |-> 0]]

\* CalendarBody.composedGesture: a race of the three gestures; on Android
\* the two drag gestures activate after a long press of 200 ms.
ComposedGesture(os) ==
    [composition |-> "race",
     longPress   |-> [g \in GestureNames |->
                        IF os = "android" /\ g # "pinch"
                        THEN LONG_PRESS_MS ELSE 0]]

\* ------------------------------------------------------------------------
\* Inputs of the model
\* ------------------------------------------------------------------------
At(y, m, d, h) == DaysFromCivil(y, m, d) * HOURS_IN_DAY + h

\* Anchor instants: the first and the last hour of months of 28, 29, 30
\* and 31 days, and an instant in the middle of a month.
AnchorInstants ==
    { At(2024, 2, 1, 0), At(2024, 2, 29, 23), At(2024, 3, 15, 12),
      At(2024, 4, 30, 23), At(2026, 2, 1, 0), At(2026, 2, 28, 23) }

\* The anchors under which event lists are exercised.
EventAnchors == { At(2024, 2, 1, 0), At(2024, 3, 15, 12) }

FirstDays == 0..6

\* Zones: UTC-5, UTC and UTC+9.
Zones == {0 - 5, 0, 9}

\* Values of "now": a day start of the grid, and an instant inside a day.
NowInstants == { At(2024, 2, 10, 0), At(2024, 2, 10, 13) }

\* Event starts close to midnight, at the edges of the month and of the grid.
StartInstants ==
    { At(2024, 2, 10, 0), At(2024, 2, 10, 23), At(2024, 2, 29, 22),
      At(2024, 1, 29, 2) }

Starts == { GoodStart(t) : t \in StartInstants } \cup { BadStart }

\* Event starts of the day-cell scenarios: two instants of neighbouring days.
CellStarts == { GoodStart(At(2024, 2, 10, 9)), GoodStart(At(2024, 2, 11, 9)) }

Event(id, start) == [id |-> id, start |-> start]

\* The event lists of at most n events whose starts are drawn from S; the
\* id of an event is its position in the list.
EventLists(S, n) ==
    UNION { { [k \in 1..len |-> Event(k, f[k])] : f \in [1..len -> S] }
            : len \in 0..n }

MaybeFn(name) == {UNDEFINED, name}

NotPressed == [kind |-> "none", cell |-> 0, chip |-> 0]

\* ------------------------------------------------------------------------
\* Rendering
\* ------------------------------------------------------------------------
\* What one render pass of MonthView leaves on screen and in the log.
Rendered(r, p, fd, lay) ==
    /\ monthData' = r.days
    /\ warnings' = r.warnings
    /\ threw' = r.threw
    /\ weekDays' = WeekDays(fd)
    /\ dayCells' = [i \in 1..Len(r.days) |-> MonthDay(r.days[i], p, lay)]

\* One render pass of MonthView: monthData, weekDays, the day cells and the
\* diagnostics.
Render(p, fd, tz, now, throws, lay) ==
    Rendered(MonthData(p.dateUnix, fd, now, p.events, tz, throws), p, fd, lay)

\* Before the first render nothing is on screen.
Unmounted ==
    /\ mounted = FALSE
    /\ monthData = << >>
    /\ weekDays = << >>
    /\ warnings = << >>
    /\ threw = FALSE
    /\ dayCells = << >>
    /\ calls = << >>
    /\ pressed = NotPressed

\* The first render of MonthView.
MountMonthView ==
    /\ ~mounted
    /\ mounted' = TRUE
    /\ Render(props, firstDay, timezone, currentDateUnix, throwOnInvalid,
              layout)
    /\ UNCHANGED <<props, firstDay, timezone, currentDateUnix, actions,
                   throwOnInvalid, layout, hosted, hostEvents, calls, pressed>>
    /\ UNCHANGED <<eventVars, itemVars, bodyVars>>

\* A press on day cell i (outside its chips).
PressDay(i) ==
    /\ mounted
    /\ i \in 1..Len(monthData)
    /\ calls' = HandlePressDay(monthData[i], props, actions, timezone)
    /\ pressed' = [kind |-> "day", cell |-> i, chip |-> 0]
    /\ UNCHANGED <<props, firstDay, timezone, currentDateUnix, actions,
                   throwOnInvalid, layout, hosted, hostEvents, monthData,
                   weekDays, warnings, threw, dayCells, mounted>>
    /\ UNCHANGED <<eventVars, itemVars, bodyVars>>

\* A press on chip k of day cell i.
PressEvent(i, k) ==
    /\ mounted
    /\ i \in 1..Len(monthData)
    /\ k \in 1..Len(dayCells[i].chips)
    /\ calls' = PressOnChip(monthData[i], k, props, layout, actions, timezone)
    /\ pressed' = [kind |-> "event", cell |-> i, chip |-> k]
    /\ UNCHANGED <<props, firstDay, timezone, currentDateUnix, actions,
                   throwOnInvalid, layout, hosted, hostEvents, monthData,
                   weekDays, warnings, threw, dayCells, mounted>>
    /\ UNCHANGED <<eventVars, itemVars, bodyVars>>

\* ------------------------------------------------------------------------
\* SpecMonth: MonthView over anchors, first days, zones and event lists
\* ------------------------------------------------------------------------
\* The value of useBody().
Body(start, end, columnWidth, rightEdgeSpacing, overlapEventsSpacing, resourcePerPage, enableResourceScroll) ==
    [start                |-> start,
     end                  |-> end,
     columnWidth          |-> columnWidth,
     rightEdgeSpacing     |-> rightEdgeSpacing,
     overlapEventsSpacing |-> overlapEventsSpacing,
     resourcePerPage      |-> resourcePerPage,
     enableResourceScroll |-> enableResourceScroll]

\* The renderer, the callbacks and the dragging flag of EventItemProps.
ItemProps(rEvent, onPress, onLongPress, dragging) ==
    [renderEvent      |-> rEvent,
     onPressEvent     |-> onPress,
     onLongPressEvent |-> onLongPress,
     isDragging       |-> dragging]

NoRequest == [changed |-> "nothing yet", passes |-> 0]

NoTouch == [down |-> FALSE, heldMs |-> 0]

NoGestures == [g \in {"pinch", "dragEvent", "dragToCreate"} |->
                  [state |-> "undetermined", activatedAt |-> 0]]

\* Before the first render of CalendarBody, without touch.
BodyIdle ==
    /\ grid = [list |-> "none", pages |-> << >>]
    /\ refreshControl = [exists |-> FALSE, refreshing |-> FALSE]
    /\ refreshCalls = [triggered |-> FALSE, calls |-> << >>]
    /\ bodyMounted = FALSE
    /\ touch = NoTouch
    /\ gestures = NoGestures

\* CalendarBody is not followed: a day view without refresh callback.
NoBody ==
    /\ numberOfDays = 1
    /\ columns = 1
    /\ visibleDatesArray = << >>
    /\ onRefresh = UNDEFINED
    /\ visibleDateUnix = 0
    /\ platform = "ios"
    /\ BodyIdle

\* No render pass, request or call of an EventItem has happened.
ItemsIdle ==
    /\ renderCount = 0
    /\ lastRequest = NoRequest
    /\ eventCalls = << >>

\* No time grid on screen: the month view is shown.
NoEventItems ==
    /\ body = Body(0, 1440, 24, 1, 1, 1, FALSE)
    /\ startUnix = 0
    /\ visibleDates = {}
    /\ totalResources = 0
    /\ packedEvents = << >>
    /\ blocks = << >>
    /\ itemProps = ItemProps(UNDEFINED, UNDEFINED, UNDEFINED, FALSE)
    /\ ItemsIdle

DirectProps(dateUnix, events, onDay, onEvent, rEvent, rDay) ==
    [dateUnix      |-> dateUnix,
     events        |-> events,
     onPressDay    |-> onDay,
     onPressEvent  |-> onEvent,
     renderEvent   |-> rEvent,
     renderDayItem |-> rDay]

\* Every anchor with every first day of week, without events.
InitGrid ==
    /\ \E d \in AnchorInstants :
         props = DirectProps(d, << >>, "pageOnPressDay", "pageOnPressEvent",
                             UNDEFINED, UNDEFINED)
    /\ hostEvents = << >>
    /\ firstDay \in FirstDays
    /\ timezone = 0
    /\ throwOnInvalid = FALSE
    /\ currentDateUnix \in NowInstants

\* Every event list in every zone, under two anchors and two first days.
InitEvents ==
    /\ hostEvents \in EventLists(Starts, MaxEvents)
    /\ \E d \in EventAnchors :
         props = DirectProps(d, hostEvents, "pageOnPressDay",
                             "pageOnPressEvent", UNDEFINED, UNDEFINED)
    /\ firstDay \in {0, 1}
    /\ timezone \in Zones
    /\ throwOnInvalid \in BOOLEAN
    /\ currentDateUnix = At(2024, 2, 10, 0)

InitMonth ==
    /\ hosted = FALSE
    /\ layout = "spacious"
    /\ actions = [onPressDayNumber |-> "hostOnPressDayNumber",
                  onPressEvent     |-> "hostOnPressEvent"]
    /\ (InitGrid \/ InitEvents)
    /\ Unmounted
    /\ NoEventItems
    /\ NoBody

NextMonth == MountMonthView

SpecMonth == InitMonth /\ [][NextMonth]_vars

\* ------------------------------------------------------------------------
\* SpecDay: day cells, presses and the month page of CalendarBody
\* ------------------------------------------------------------------------
\* MonthView used directly: the caller passes events, callbacks and renderers.
InitDirect ==
    /\ hosted = FALSE
    /\ hostEvents \in EventLists(CellStarts, MaxCellEvents)
    /\ \E onDay \in MaybeFn("pageOnPressDay") :
       \E onEvent \in MaybeFn("pageOnPressEvent") :
       \E rEvent \in MaybeFn("customRenderEvent") :
       \E rDay \in MaybeFn("customRenderDayItem") :
           props = DirectProps(At(2024, 2, 15, 12), hostEvents, onDay,
                               onEvent, rEvent, rDay)
    /\ \E onNumber \in MaybeFn("hostOnPressDayNumber") :
           actions = [onPressDayNumber |-> onNumber,
                      onPressEvent     |-> "hostOnPressEvent"]
    /\ timezone = 0

\* MonthView as the month page of CalendarBody (numberOfDays = 30).
InitHosted ==
    /\ hosted = TRUE
    /\ hostEvents \in EventLists(CellStarts, MaxEvents)
    /\ actions \in [onPressDayNumber : MaybeFn("hostOnPressDayNumber"),
                    onPressEvent     : MaybeFn("hostOnPressEvent")]
    /\ \E rEvent \in MaybeFn("customRenderEvent") :
           props = MonthViewBody(
                       MonthPageProps(At(2024, 2, 15, 12), actions, rEvent),
                       hostEvents)
    /\ timezone \in Zones

InitDay ==
    /\ layout \in {"spacious", "compact"}
    /\ firstDay = 1
    /\ currentDateUnix = At(2024, 2, 10, 0)
    /\ throwOnInvalid = FALSE
    /\ (InitDirect \/ InitHosted)
    /\ Unmounted
    /\ NoEventItems
    /\ NoBody

\* The cells the presses are tried on: the first and last cell of the grid
\* and the two cells the events of CellStarts fall on.
PressCells == {1, 13, 14, GRID_DAYS}

NextDay ==
    \/ MountMonthView
    \/ \E i \in PressCells : PressDay(i)
    \/ \E i \in PressCells : \E k \in 1..SPACIOUS_CAP : PressEvent(i, k)

SpecDay == InitDay /\ [][NextDay]_vars

\* ------------------------------------------------------------------------
\* SpecEvent: EventItems of the time grid
\* ------------------------------------------------------------------------
\* No month view on screen: the time grid is shown.
NoMonthView ==
    /\ props = DirectProps(At(2024, 2, 15, 12), << >>, UNDEFINED, UNDEFINED,
                           UNDEFINED, UNDEFINED)
    /\ firstDay = 1
    /\ timezone = 0
    /\ currentDateUnix = At(2024, 2, 10, 0)
    /\ actions = [onPressDayNumber |-> UNDEFINED, onPressEvent |-> UNDEFINED]
    /\ throwOnInvalid = FALSE
    /\ layout = "spacious"
    /\ hosted = FALSE
    /\ hostEvents = << >>
    /\ Unmounted

\* The viewport start of the time-grid scenarios: a day-start instant.
ViewStart == At(2024, 3, 6, 0)

\* The day-start instants within MaxDaySpan days of the viewport start.
DayStarts ==
    { ViewStart + k * HOURS_IN_DAY : k \in (0 - MaxDaySpan)..MaxDaySpan }

\* A single event on the viewport's first day, in a column of its own.
SingleEvent(duration, startMinutes, eventStartUnix) ==
    << PackedEvent(1, Internal(duration, startMinutes, eventStartUnix,
                               1, 0, 1, 0, 0, 0)) >>

\* One event of every start and duration under every visible hour range.
InitVertical ==
    /\ \E s \in 0..MaxMinute : \E e \in (s + 1)..MaxMinute :
           body = Body(s, e, 24, 1, 1, 1, FALSE)
    /\ \E sm \in 0..MaxMinute : \E d \in 0..(MaxMinute + 1) :
           packedEvents = SingleEvent(d, sm, ViewStart)
    /\ startUnix = ViewStart
    /\ visibleDates = {ViewStart}
    /\ totalResources = 0

\* n events that share one time slot, one per overlap column, under every
\* column width, spacing and resource arrangement; every arrangement leaves
\* the events a positive width.
InitColumns ==
    /\ \E cw \in {24, 25} : \E res \in {0, 1} : \E s \in {0, 1, 2} :
       \E rs \in { <<FALSE, 1>>, <<TRUE, 2>> } :
           body = Body(0, MaxMinute, cw, res, s, rs[2], rs[1])
    /\ totalResources \in {0, 2}
    /\ \E n \in 1..MaxColumns : \E ri \in {0, 1, 3} :
       \E day \in {ViewStart, ViewStart + HOURS_IN_DAY} :
           packedEvents = [k \in 1..n |->
                              PackedEvent(k, Internal(3, 2, day, n, k - 1, 1,
                                                      0, 0, ri))]
    /\ startUnix = ViewStart
    /\ visibleDates = {ViewStart, ViewStart + HOURS_IN_DAY}

\* One event on every day around the viewport start, under every set of
\* visible days.
InitDays ==
    /\ body = Body(0, MaxMinute, 24, 1, 1, 1, FALSE)
    /\ startUnix = ViewStart
    /\ visibleDates \in SUBSET DayStarts
    /\ \E day \in DayStarts : packedEvents = SingleEvent(3, 2, day)
    /\ totalResources = 0

InitEvent ==
    /\ NoMonthView
    /\ blocks = << >>
    /\ itemProps = ItemProps(UNDEFINED, UNDEFINED, UNDEFINED, FALSE)
    /\ ItemsIdle
    /\ NoBody
    /\ (InitVertical \/ InitColumns \/ InitDays)

\* The first render of the EventItems of the time grid.
MountEventItems ==
    /\ blocks = << >>
    /\ packedEvents # << >>
    /\ blocks' = [k \in 1..Len(packedEvents) |->
                     EventItem(packedEvents[k], startUnix, visibleDates,
                               totalResources, body)]
    /\ renderCount' = renderCount + 1
    /\ eventCalls' = AllRenderCalls(packedEvents, itemProps)
    /\ UNCHANGED <<body, startUnix, visibleDates, totalResources,
                   packedEvents, itemProps, lastRequest>>
    /\ UNCHANGED <<monthVars, bodyVars>>

NextEvent == MountEventItems

SpecEvent == InitEvent /\ [][NextEvent]_vars

\* ------------------------------------------------------------------------
\* SpecItem: one EventItem under re-render requests and presses
\* ------------------------------------------------------------------------
\* The event of the re-render scenarios, of the given duration.
ItemEvent(duration) ==
    PackedEvent(1, Internal(duration, 2, ViewStart + HOURS_IN_DAY, 1, 0, 1,
                            0, 0, 0))

\* The values a re-render request can give to each prop.
PropValues ==
    [event            |-> {ItemEvent(2), ItemEvent(3)},
     startUnix        |-> {ViewStart, ViewStart + HOURS_IN_DAY},
     visibleDates     |-> {{ViewStart, ViewStart + HOURS_IN_DAY},
                           {ViewStart + HOURS_IN_DAY}},
     totalResources   |-> {0, 2},
     renderEvent      |-> MaybeFn("hostRenderEvent"),
     onPressEvent     |-> MaybeFn("hostOnPressEvent"),
     onLongPressEvent |-> MaybeFn("hostOnLongPressEvent"),
     isDragging       |-> BOOLEAN]

InitItem ==
    /\ NoMonthView
    /\ body = Body(0, MaxMinute, 24, 1, 1, 1, FALSE)
    /\ packedEvents = << ItemEvent(2) >>
    /\ startUnix = ViewStart
    /\ visibleDates = {ViewStart, ViewStart + HOURS_IN_DAY}
    /\ totalResources \in PropValues.totalResources
    /\ itemProps \in [renderEvent      : PropValues.renderEvent,
                      onPressEvent     : PropValues.onPressEvent,
                      onLongPressEvent : PropValues.onLongPressEvent,
                      isDragging       : {FALSE}]
    /\ blocks = << >>
    /\ ItemsIdle
    /\ NoBody

\* The parent renders again and hands `next` to the memoised EventItem:
\* the props become `next`; a render pass happens unless the comparator
\* returns TRUE.
Requested(prev, next, changed) ==
    /\ packedEvents' = << next.event >>
    /\ startUnix' = next.startUnix
    /\ visibleDates' = next.visibleDates
    /\ totalResources' = next.totalResources
    /\ itemProps' = ItemProps(next.renderEvent, next.onPressEvent,
                              next.onLongPressEvent, next.isDragging)
    /\ IF AreEqual(prev, next)
       THEN /\ blocks' = blocks
            /\ renderCount' = renderCount
            /\ eventCalls' = << >>
            /\ lastRequest' = [changed |-> changed, passes |-> 0]
       ELSE /\ blocks' = << EventItem(next.event, next.startUnix,
                                      next.visibleDates, next.totalResources,
                                      body) >>
            /\ renderCount' = renderCount + 1
            /\ eventCalls' = RenderCalls(next.event,
                                         ItemProps(next.renderEvent,
                                                   next.onPressEvent,
                                                   next.onLongPressEvent,
                                                   next.isDragging))
            /\ lastRequest' = [changed |-> changed, passes |-> 1]

\* A re-render request that gives prop f the value v and leaves the other
\* props as they are (v may be the value the prop has).
RequestRender(f, v) ==
    /\ blocks # << >>
    /\ renderCount < MaxRenders
    /\ Requested(MemoProps(packedEvents[1], startUnix, visibleDates,
                           totalResources, itemProps),
                 [MemoProps(packedEvents[1], startUnix, visibleDates,
                            totalResources, itemProps) EXCEPT ![f] = v],
                 IF MemoProps(packedEvents[1], startUnix, visibleDates,
                              totalResources, itemProps)[f] = v
                 THEN "none" ELSE f)
    /\ UNCHANGED body
    /\ UNCHANGED <<monthVars, bodyVars>>

\* A press on the EventItem: Pressable.onPress is set when onPressEvent is.
PressEventItem ==
    /\ blocks # << >>
    /\ itemProps.onPressEvent # UNDEFINED
    /\ eventCalls' = OnPressEventItem(packedEvents[1], itemProps)
    /\ UNCHANGED <<eventVars, itemProps, renderCount, lastRequest>>
    /\ UNCHANGED <<monthVars, bodyVars>>

\* A long press on the EventItem: Pressable.onLongPress is set when
\* onLongPressEvent is.
LongPressEventItem ==
    /\ blocks # << >>
    /\ itemProps.onLongPressEvent # UNDEFINED
    /\ eventCalls' = OnLongPressEventItem(packedEvents[1], itemProps)
    /\ UNCHANGED <<eventVars, itemProps, renderCount, lastRequest>>
    /\ UNCHANGED <<monthVars, bodyVars>>

NextItem ==
    \/ MountEventItems
    \/ \E f \in DOMAIN PropValues : \E v \in PropValues[f] : RequestRender(f, v)
    \/ PressEventItem
    \/ LongPressEventItem

SpecItem == InitItem /\ [][NextItem]_vars

\* ------------------------------------------------------------------------
\* SpecBody: CalendarBody with its pages, refresh control and gestures
\* ------------------------------------------------------------------------
\* The visible-dates arrays: consecutive day starts from the viewport start.
VisibleArrays ==
    { [k \in 1..n |-> ViewStart + (k - 1) * HOURS_IN_DAY]
        : n \in {MaxPages, 2 * MaxPages} }

\* The time the touch is held grows in steps of this many ms.
HOLD_STEP_MS == 100

InitBody ==
    /\ NoMonthView
    /\ \E ers \in BOOLEAN : body = Body(0, MaxMinute, 24, 1, 1, 2, ers)
    /\ startUnix = 0
    /\ visibleDates = {}
    /\ totalResources = 0
    /\ packedEvents = << >>
    /\ blocks = << >>
    /\ itemProps = ItemProps(UNDEFINED, UNDEFINED, UNDEFINED, FALSE)
    /\ ItemsIdle
    /\ numberOfDays \in {1, 7, MONTH_SENTINEL}
    /\ columns \in {1, 2}
    /\ visibleDatesArray \in VisibleArrays
    /\ onRefresh \in MaybeFn("hostOnRefresh")
    /\ visibleDateUnix = ViewStart
    /\ platform \in {"android", "ios", "web"}
    /\ BodyIdle

\* The first render of CalendarBody.
MountCalendarBody ==
    /\ ~bodyMounted
    /\ bodyMounted' = TRUE
    /\ grid' = GridList(body, columns, visibleDatesArray, numberOfDays,
                        MaxPages)
    /\ refreshControl' = RefreshControl(onRefresh)
    /\ UNCHANGED <<numberOfDays, columns, visibleDatesArray, onRefresh,
                   visibleDateUnix, platform, refreshCalls, touch, gestures>>
    /\ UNCHANGED <<monthVars, eventVars, itemVars>>

\* A horizontal swipe makes another date the visible one.
SwipeToDate(k) ==
    /\ bodyMounted
    /\ k \in 1..Len(visibleDatesArray)
    /\ visibleDateUnix' = visibleDatesArray[k]
    /\ refreshCalls' = [triggered |-> FALSE, calls |-> << >>]
    /\ UNCHANGED <<numberOfDays, columns, visibleDatesArray, onRefresh,
                   platform, grid, refreshControl, bodyMounted, touch,
                   gestures>>
    /\ UNCHANGED <<monthVars, eventVars, itemVars>>

\* The user pulls the refresh control, which calls its onRefresh prop.
PullToRefresh ==
    /\ bodyMounted
    /\ refreshControl.exists
    /\ refreshCalls' = [triggered |-> TRUE,
                        calls     |-> OnRefresh(onRefresh, visibleDateUnix)]
    /\ UNCHANGED <<numberOfDays, columns, visibleDatesArray, onRefresh,
                   visibleDateUnix, platform, grid, refreshControl,
                   bodyMounted, touch, gestures>>
    /\ UNCHANGED <<monthVars, eventVars, itemVars>>

\* A finger goes down on the body: the three gestures begin.
TouchDown ==
    /\ bodyMounted
    /\ ~touch.down
    /\ touch' = [down |-> TRUE, heldMs |-> 0]
    /\ gestures' = [g \in GestureNames |->
                       [state |-> "began", activatedAt |-> 0]]
    /\ UNCHANGED <<numberOfDays, columns, visibleDatesArray, onRefresh,
                   visibleDateUnix, platform, grid, refreshControl,
                   refreshCalls, bodyMounted>>
    /\ UNCHANGED <<monthVars, eventVars, itemVars>>

\* Time passes with the finger down.
Hold ==
    /\ touch.down
    /\ touch.heldMs < MaxHoldMs
    /\ touch' = [touch EXCEPT !.heldMs = @ + HOLD_STEP_MS]
    /\ UNCHANGED <<numberOfDays, columns, visibleDatesArray, onRefresh,
                   visibleDateUnix, platform, grid, refreshControl,
                   refreshCalls, bodyMounted, gestures>>
    /\ UNCHANGED <<monthVars, eventVars, itemVars>>

\* The gestures after gesture g of composition c has become active at time
\* heldMs: in a race the other gestures are cancelled.
Activated(c, g, heldMs, gs) ==
    [h \in GestureNames |->
        IF h = g THEN [state |-> "active", activatedAt |-> heldMs]
        ELSE IF c.composition = "race"
             THEN [state |-> "cancelled", activatedAt |-> 0]
             ELSE gs[h]]

\* Gesture g, which has begun, becomes active: not before its long-press
\* time has passed.
Activate(g) ==
    /\ touch.down
    /\ gestures[g].state = "began"
    /\ touch.heldMs >= ComposedGesture(platform).longPress[g]
    /\ gestures' = Activated(ComposedGesture(platform), g, touch.heldMs,
                             gestures)
    /\ UNCHANGED <<numberOfDays, columns, visibleDatesArray, onRefresh,
                   visibleDateUnix, platform, grid, refreshControl,
                   refreshCalls, bodyMounted, touch>>
    /\ UNCHANGED <<monthVars, eventVars, itemVars>>

\* The finger goes up: every gesture ends.
TouchUp ==
    /\ touch.down
    /\ touch' = NoTouch
    /\ gestures' = NoGestures
    /\ UNCHANGED <<numberOfDays, columns, visibleDatesArray, onRefresh,
                   visibleDateUnix, platform, grid, refreshControl,
                   refreshCalls, bodyMounted>>
    /\ UNCHANGED <<monthVars, eventVars, itemVars>>

NextBody ==
    \/ MountCalendarBody
    \/ \E k \in 1..(2 * MaxPages) : SwipeToDate(k)
    \/ PullToRefresh
    \/ TouchDown
    \/ Hold
    \/ \E g \in GestureNames : Activate(g)
    \/ TouchUp

SpecBody == InitBody /\ [][NextBody]_vars

\* ------------------------------------------------------------------------
\* Properties of the month grid (SpecMonth)
\* ------------------------------------------------------------------------
\* The day number of the first day of the month the anchor instant lies in.
FirstOfAnchorMonth ==
    LET anchorDay == (props.dateUnix + DefaultZone) \div HOURS_IN_DAY
    IN  CHOOSE n \in (anchorDay - 30)..anchorDay :
            /\ CivilFromDays(n).day = 1
            /\ CivilFromDays(n).month = CivilFromDays(anchorDay).month

\* The day number of a cell of the grid.
CellDay(i) == (monthData[i].dateUnix + DefaultZone) \div HOURS_IN_DAY

\* C1: for every anchor instant and every first day of week the grid has
\* exactly 42 cells on consecutive days, cut into 6 rows of 7, and cell 0 is
\* the latest day on or before the 1st of the anchor month whose weekday is
\* the configured first day of week (0 to 6 days before the 1st).
C1_GridOrigin ==
    mounted =>
        /\ Len(monthData) = 42
        /\ \A i \in 1..Len(monthData) : CellDay(i) = CellDay(1) + (i - 1)
        /\ \A i \in 1..Len(monthData) :
               monthData[i].dateUnix = CellDay(i) * HOURS_IN_DAY - DefaultZone
        /\ Len(Weeks(monthData)) = 6
        /\ \A w \in 1..6 :
               /\ Len(Weeks(monthData)[w]) = 7
               /\ \A c \in 1..7 :
                      Weeks(monthData)[w][c] = monthData[(w - 1) * 7 + c]
        /\ FirstOfAnchorMonth - CellDay(1) \in 0..6
        /\ ((CellDay(1) + 4) % 7) = firstDay % 7

\* C1 witness: a rendered grid whose origin lies before the 1st of the month.
C1_Witness ==
    /\ mounted
    /\ Len(monthData) = 42
    /\ CellDay(1) < FirstOfAnchorMonth
    /\ firstDay = 0

\* The label of weekday number d (0 is Sunday, 1 is Monday) in the table.
LabelOfWeekday(d) == weekDayShort[((d + 6) % 7) + 1]

\* C2: for every first day of week in 0..6 the seven header labels are
\* defined entries of the weekday table and are the rotation of the week
\* that starts with the configured first day.
C2_HeaderRotation ==
    mounted =>
        /\ Len(weekDays) = 7
        /\ \A n \in 1..Len(weekDays) :
               weekDays[n] = LabelOfWeekday(firstDay + (n - 1))

\* The day number of the calendar date an event starts on in the active zone.
EventLocalDay(e) == (e.start.ts + timezone) \div HOURS_IN_DAY

Listed(e, i) == \E k \in 1..Len(monthData[i].events) : monthData[i].events[k] = e

\* C3: an event with a parseable start is listed in a cell if and only if
\* the cell's date is the date of the start in the active timezone; so it is
\* never in a neighbouring cell, and in at most one cell.
C3_EventInItsCell ==
    mounted =>
        \A k \in 1..Len(props.events) :
            props.events[k].start.kind = "instant" =>
                /\ \A i \in 1..Len(monthData) :
                       Listed(props.events[k], i)
                           <=> CellDay(i) = EventLocalDay(props.events[k])
                /\ Cardinality({i \in 1..Len(monthData) :
                                   Listed(props.events[k], i)}) <= 1

\* C3 witness: an event is listed in a cell, and its date in the active
\* timezone is not its UTC date (the start is close to midnight).
C3_Witness ==
    /\ mounted
    /\ \E k \in 1..Len(props.events) : \E i \in 1..Len(monthData) :
           /\ props.events[k].start.kind = "instant"
           /\ Listed(props.events[k], i)
           /\ EventLocalDay(props.events[k])
                  # props.events[k].start.ts \div HOURS_IN_DAY

\* C4: an event with an unparseable start is in none of the 42 cells, the
\* render does not throw, the other events are assigned as usual, and a
\* warning is recorded for the event.
C4_UnparseableWarned ==
    mounted =>
        /\ ~threw
        /\ Len(monthData) = 42
        /\ \A k \in 1..Len(props.events) :
               IF props.events[k].start.kind = "unparseable"
               THEN /\ \A i \in 1..Len(monthData) : ~Listed(props.events[k], i)
                    /\ warnings[k] >= 1
               ELSE \A i \in 1..Len(monthData) :
                        Listed(props.events[k], i)
                            <=> CellDay(i) = EventLocalDay(props.events[k])

\* ------------------------------------------------------------------------
\* Properties of the day cells, the presses and the month page (SpecDay)
\* ------------------------------------------------------------------------
\* C5: a day cell with the default rendering that holds n events shows
\* exactly min(n, c) chips, the first ones in list order, where c is 3 in the
\* spacious and 1 in the compact layout; the overflow label is shown if and
\* only if n > c, and it reports n - c.
C5_ChipsAndOverflow ==
    (mounted /\ props.renderDayItem = UNDEFINED) =>
        \A i \in 1..Len(monthData) :
            LET n == Len(monthData[i].events)
                c == IF layout = "spacious" THEN 3 ELSE 1
            IN  /\ Len(dayCells[i].chips) = (IF n <= c THEN n ELSE c)
                /\ \A k \in 1..Len(dayCells[i].chips) :
                       dayCells[i].chips[k].event = monthData[i].events[k]
                /\ dayCells[i].overflow.shown <=> n > c
                /\ dayCells[i].overflow.shown =>
                       dayCells[i].overflow.count = n - c

\* C5 witness: a spacious cell with four events shows three chips and "+1".
C5_Witness ==
    /\ mounted
    /\ layout = "spacious"
    /\ props.renderDayItem = UNDEFINED
    /\ \E i \in 1..Len(monthData) :
           /\ Len(monthData[i].events) = 4
           /\ Len(dayCells[i].chips) = 3
           /\ dayCells[i].overflow.shown
           /\ dayCells[i].overflow.count = 1

\* The number of invocations the last press made through a callback slot.
CallsThrough(slot) ==
    Cardinality({k \in 1..Len(calls) : calls[k].slot = slot})

\* The date of a cell's instant in the active timezone, as year, month, day.
CellDateInZone(i) ==
    LET c == CivilFromDays((monthData[i].dateUnix + timezone) \div HOURS_IN_DAY)
    IN  <<c.year, c.month, c.day>>

\* C9: one press on a day cell invokes the page-level day-press callback
\* and the shared action day-press callback once each (each where one is
\* supplied), both with the cell's ISO date in the active timezone, and no
\* event callback; one press on a chip invokes the event-press callback
\* once, with the chip's event, and neither day-press callback.
C9_PressCallbacks ==
    /\ pressed.kind = "day" =>
           /\ CallsThrough("onPressDay")
                  = (IF props.onPressDay # UNDEFINED THEN 1 ELSE 0)
           /\ CallsThrough("onPressDayNumber")
                  = (IF actions.onPressDayNumber # UNDEFINED THEN 1 ELSE 0)
           /\ CallsThrough("onPressEvent") = 0
           /\ \A k \in 1..Len(calls) :
                  calls[k].date = CellDateInZone(pressed.cell)
    /\ pressed.kind = "event" =>
           /\ CallsThrough("onPressDay") = 0
           /\ CallsThrough("onPressDayNumber") = 0
           /\ CallsThrough("onPressEvent")
                  = (IF props.onPressEvent # UNDEFINED THEN 1 ELSE 0)
           /\ \A k \in 1..Len(calls) :
                  calls[k].event = monthData[pressed.cell].events[pressed.chip]

\* C9 witness: a day press with both day callbacks supplied made two calls.
C9_Witness ==
    /\ pressed.kind = "day"
    /\ props.onPressDay # UNDEFINED
    /\ actions.onPressDayNumber # UNDEFINED
    /\ Len(calls) = 2
    /\ calls[1].slot = "onPressDay"
    /\ calls[2].slot = "onPressDayNumber"
    /\ calls[1].date = calls[2].date

\* The events of a collection that start in the month of the page's anchor.
EventsOfPageMonth(collection, dateUnix) ==
    SelectSeq(collection,
              LAMBDA e :
                  /\ e.start.kind = "instant"
                  /\ LET a == CivilFromDays((dateUnix + timezone)
                                                \div HOURS_IN_DAY)
                         c == CivilFromDays(EventLocalDay(e))
                     IN  a.year = c.year /\ a.month = c.month)

\* C10: when the host has a non-empty event collection, the month page
\* passes to the month grid exactly the events of its page's month, and each
\* of them is listed in a day cell of the page.
C10_PagePassesMonthEvents ==
    (mounted /\ hosted /\ hostEvents # << >>) =>
        /\ props.events = EventsOfPageMonth(hostEvents, props.dateUnix)
        /\ \A k \in 1..Len(hostEvents) :
               \E i \in 1..Len(monthData) : Listed(hostEvents[k], i)

\* ------------------------------------------------------------------------
\* Properties of the EventItem geometry (SpecEvent)
\* ------------------------------------------------------------------------
\* TRUE when event k lies entirely within the visible hour range.
WithinRange(k) ==
    /\ body.start <= packedEvents[k]._internal.startMinutes
    /\ packedEvents[k]._internal.startMinutes
           + packedEvents[k]._internal.duration <= body.end

\* top% + height% <= 100, and both strictly between 0 and 100, for block k.
VerticalInBounds(k) ==
    /\ Finite(blocks[k].top)
    /\ Finite(blocks[k].height)
    /\ Leq(Plus(blocks[k].top, blocks[k].height), Num(100))
    /\ Less(Num(0), blocks[k].top)
    /\ Less(blocks[k].top, Num(100))
    /\ Less(Num(0), blocks[k].height)
    /\ Less(blocks[k].height, Num(100))

ColumnsOfDay ==
    IF body.enableResourceScroll THEN body.resourcePerPage
    ELSE IF totalResources > 0 THEN totalResources ELSE 1

SlotWidth == Over(Num(body.columnWidth), Num(ColumnsOfDay))

SlotAvailableWidth == Minus(SlotWidth, Num(body.rightEdgeSpacing))

\* The left edge of the slot of block k: its day column and resource column.
SlotOrigin(k) ==
    Times(Num(blocks[k].diffDays
              + (IF body.enableResourceScroll
                 THEN packedEvents[k]._internal.resourceIndex
                          % body.resourcePerPage
                 ELSE packedEvents[k]._internal.resourceIndex)),
          SlotWidth)

\* The sum of the width fractions of blocks 1..k.
RECURSIVE SumOfFractions(_)
SumOfFractions(k) ==
    IF k = 0 THEN Num(0)
    ELSE Plus(SumOfFractions(k - 1), Over(blocks[k].width, SlotAvailableWidth))

\* TRUE when the events on screen share one time slot in n overlap columns:
\* total = n, columnSpan = 1, index = 0..n-1, same day and resource.
ShareOneSlot ==
    /\ blocks # << >>
    /\ \A k \in 1..Len(packedEvents) :
           /\ packedEvents[k]._internal.total = Len(packedEvents)
           /\ packedEvents[k]._internal.columnSpan = 1
           /\ packedEvents[k]._internal.index = k - 1
           /\ packedEvents[k]._internal.startUnix
                  = packedEvents[1]._internal.startUnix
           /\ packedEvents[k]._internal.resourceIndex
                  = packedEvents[1]._internal.resourceIndex

\* C7: for n events sharing one time slot (total = n, columnSpan = 1,
\* index 0..n-1) the width fractions sum to at most 1, the horizontal
\* intervals [left, left + eventWidth] of two events do not overlap,
\* neighbouring ones are overlapEventsSpacing apart, and every interval lies
\* within the available width of the slot.
C7_ColumnsSideBySide ==
    ShareOneSlot =>
        /\ Leq(SumOfFractions(Len(blocks)), Num(1))
        /\ \A i \in 1..Len(blocks) : \A j \in 1..Len(blocks) :
               i < j => Leq(Plus(blocks[i].eventPosX, blocks[i].width),
                            blocks[j].eventPosX)
        /\ \A i \in 1..(Len(blocks) - 1) :
               Same(Minus(blocks[i + 1].eventPosX,
                          Plus(blocks[i].eventPosX, blocks[i].width)),
                    Num(body.overlapEventsSpacing))
        /\ \A k \in 1..Len(blocks) :
               /\ Less(Num(0), blocks[k].width)
               /\ Leq(SlotOrigin(k), blocks[k].eventPosX)
               /\ Leq(Plus(blocks[k].eventPosX, blocks[k].width),
                      Plus(SlotOrigin(k), SlotAvailableWidth))

\* C7 witness: two events share a slot with a spacing of 2; the second one
\* starts 2 points after the first one ends and ends at the available width.
C7_Witness ==
    /\ ShareOneSlot
    /\ Len(blocks) = 2
    /\ body.overlapEventsSpacing = 2
    /\ Same(blocks[2].eventPosX,
            Plus(Plus(blocks[1].eventPosX, blocks[1].width), Num(2)))
    /\ Same(Plus(blocks[2].eventPosX, blocks[2].width),
            Plus(SlotOrigin(2), SlotAvailableWidth))

\* The visible days from instant a up to, not including, instant b.
VisibleDaysIn(a, b) == {d \in visibleDates : a <= d /\ d < b}

\* C8: diffDays is the signed number of visible days between the viewport
\* start and the event's start: for an event at or after the viewport start
\* the number of visible days in [viewportStart, eventStart), for an earlier
\* event minus the number of visible days in [eventStart, viewportStart);
\* hidden days consume no column.
C8_DiffDaysCountsVisible ==
    \A k \in 1..Len(blocks) :
        blocks[k].diffDays =
            (IF packedEvents[k]._internal.startUnix >= startUnix
             THEN Cardinality(VisibleDaysIn(startUnix,
                                  packedEvents[k]._internal.startUnix))
             ELSE 0 - Cardinality(VisibleDaysIn(
                                  packedEvents[k]._internal.startUnix,
                                  startUnix)))

\* C8 witness: the event starts two days after the viewport start and the
\* day between is hidden: diffDays is 1.
C8_Witness ==
    /\ Len(blocks) = 1
    /\ packedEvents[1]._internal.startUnix = startUnix + 2 * HOURS_IN_DAY
    /\ startUnix \in visibleDates
    /\ (startUnix + HOURS_IN_DAY) \notin visibleDates
    /\ (startUnix + 2 * HOURS_IN_DAY) \in visibleDates
    /\ blocks[1].diffDays = 1

\* ------------------------------------------------------------------------
\* Properties of the custom renderers and of the hosted presses (SpecDay)
\* ------------------------------------------------------------------------
\* C15: when renderEvent is supplied and renderDayItem is not, the content
\* of every displayed chip comes from calling renderEvent with the chip's
\* event, in the spacious and in the compact layout; the title chip is used
\* only when renderEvent is omitted.
C15_ChipsUseRenderEvent ==
    (mounted /\ props.renderDayItem = UNDEFINED) =>
        \A i \in 1..Len(dayCells) : \A k \in 1..Len(dayCells[i].chips) :
            /\ dayCells[i].chips[k].event = monthData[i].events[k]
            /\ dayCells[i].chips[k].content
                   = (IF props.renderEvent # UNDEFINED
                      THEN "renderEvent" ELSE "title")

\* The number of invocations of function fn the last press made.
InvocationsOf(fn) ==
    Cardinality({k \in 1..Len(calls) : calls[k].fn = fn})

\* C18: when the month grid is hosted by CalendarBody and the host has
\* registered a day-press action, one press on a day cell invokes that
\* action exactly once.
C18_HostActionOncePerPress ==
    (hosted /\ pressed.kind = "day" /\ actions.onPressDayNumber # UNDEFINED)
        => InvocationsOf(actions.onPressDayNumber) = 1

\* ------------------------------------------------------------------------
\* Properties of the clamping step of EventItem (SpecEvent)
\* ------------------------------------------------------------------------
\* The length of the visible hour range.
RangeLength == body.end - body.start

\* C17: for every packed event the rendered start offset is >= 0 and the
\* rendered duration is <= end - start: the duration is clipped to the range
\* length, and the part of the event before the visible start is taken off
\* the clipped duration.
C17_ClampedToRange ==
    \A k \in 1..Len(blocks) :
        LET in      == packedEvents[k]._internal
            clipped == IF in.duration <= RangeLength
                       THEN in.duration ELSE RangeLength
        IN  /\ blocks[k].startMinutes >= 0
            /\ blocks[k].totalDuration <= RangeLength
            /\ in.startMinutes >= body.start =>
                   /\ blocks[k].startMinutes = in.startMinutes - body.start
                   /\ blocks[k].totalDuration = clipped
            /\ in.startMinutes < body.start =>
                   /\ blocks[k].startMinutes = 0
                   /\ blocks[k].totalDuration
                          = clipped - (body.start - in.startMinutes)

\* C17 witness: a rendered event that starts before the visible start and
\* is longer than the visible range.
C17_Witness ==
    /\ Len(blocks) = 1
    /\ packedEvents[1]._internal.startMinutes < body.start
    /\ packedEvents[1]._internal.duration > RangeLength
    /\ blocks[1].startMinutes = 0
    /\ blocks[1].totalDuration < RangeLength

\* C19: for every packed event with duration >= 0, wherever it lies, the
\* rendered block stays inside the visible range: totalDuration >= 0 and
\* newStart + totalDuration <= end - start.
C19_BlockInsideRange ==
    \A k \in 1..Len(blocks) :
        packedEvents[k]._internal.duration >= 0 =>
            /\ blocks[k].totalDuration >= 0
            /\ blocks[k].startMinutes + blocks[k].totalDuration <= RangeLength

\* ------------------------------------------------------------------------
\* Properties of the callbacks and of the memoisation of EventItem (SpecItem)
\* ------------------------------------------------------------------------
\* C11: in no call of a host function by an EventItem (onPressEvent,
\* onLongPressEvent, renderEvent) does the event argument contain the
\* _internal field.
C11_InternalStripped ==
    \A k \in 1..Len(eventCalls) :
        "_internal" \notin DOMAIN eventCalls[k].event

\* TRUE of a step in which the event value, the visible-dates map,
\* startUnix, isDragging, renderEvent, onPressEvent and onLongPressEvent all
\* stay as they are.
TrackedPropsSame ==
    /\ packedEvents' = packedEvents
    /\ visibleDates' = visibleDates
    /\ startUnix' = startUnix
    /\ itemProps' = itemProps

\* C12: in every step of a mounted EventItem, a re-render request that
\* leaves every tracked prop as it is produces no render pass, and one in
\* which a tracked prop differs produces exactly one.
C12_MemoTracksProps ==
    [][blocks # << >> =>
           renderCount' = renderCount + (IF TrackedPropsSame THEN 0 ELSE 1)]_vars

\* C12 witness: the second render pass came from a request that changed
\* startUnix only.
C12_Witness ==
    /\ renderCount = 2
    /\ lastRequest.changed = "startUnix"
    /\ lastRequest.passes = 1
    /\ startUnix = ViewStart + HOURS_IN_DAY

\* C20: after every sequence of prop updates the geometry last rendered is
\* the geometry of the current props; so a change of totalResources alone
\* leads to a render pass.
C20_GeometryOfCurrentProps ==
    blocks # << >> =>
        \A k \in 1..Len(blocks) :
            blocks[k] = EventItem(packedEvents[k], startUnix, visibleDates,
                                  totalResources, body)

\* ------------------------------------------------------------------------
\* Properties of CalendarBody (SpecBody)
\* ------------------------------------------------------------------------
\* The page indices of the grid whose page has a start date.
DatedPageIndices ==
    {i \in 0..(MaxPages - 1) : VisibleDateAt(visibleDatesArray, i * columns) # 0}

\* C13: when numberOfDays is 30, every page that has a start date is
\* rendered by MonthViewBody, whatever the other flags (resource scrolling
\* included) are; for every other numberOfDays no page is rendered by
\* MonthViewBody.
C13_SentinelSelectsMonthPage ==
    bodyMounted =>
        /\ numberOfDays = 30 =>
               \A i \in DatedPageIndices :
                   \E k \in 1..Len(grid.pages) :
                       /\ grid.pages[k].renderer = "MonthViewBody"
                       /\ grid.pages[k].dateUnix
                              = VisibleDateAt(visibleDatesArray, i * columns)
        /\ numberOfDays # 30 =>
               \A k \in 1..Len(grid.pages) :
                   grid.pages[k].renderer # "MonthViewBody"

\* The date of the visible instant, as year, month, day.
VisibleDateString ==
    LET c == CivilFromDays((visibleDateUnix + DefaultZone) \div HOURS_IN_DAY)
    IN  <<c.year, c.month, c.day>>

\* C14: with a refresh callback, every pull-to-refresh calls it exactly
\* once, with the ISO date of the date visible at that time, and the
\* control's refreshing flag is FALSE in every state; without a refresh
\* callback there is no refresh control and nothing is called.
C14_RefreshOncePerPull ==
    /\ refreshControl.refreshing = FALSE
    /\ bodyMounted => (refreshControl.exists <=> onRefresh # UNDEFINED)
    /\ refreshCalls.triggered =>
           /\ onRefresh # UNDEFINED
           /\ Len(refreshCalls.calls) = 1
           /\ refreshCalls.calls[1].fn = onRefresh
           /\ refreshCalls.calls[1].date = VisibleDateString
    /\ onRefresh = UNDEFINED =>
           /\ ~refreshControl.exists
           /\ ~refreshCalls.triggered
           /\ refreshCalls.calls = << >>

\* C14 witness: a pull after a swipe to a later date called the callback
\* once with that later date.
C14_Witness ==
    /\ refreshCalls.triggered
    /\ visibleDateUnix = ViewStart + HOURS_IN_DAY
    /\ Len(refreshCalls.calls) = 1
    /\ refreshCalls.calls[1].date = <<2024, 3, 7>>

ActiveGestures == {g \in GestureNames : gestures[g].state = "active"}

\* C16: in every state at most one of the pinch, drag-event and
\* drag-to-create gestures is active; on Android a drag gesture is active
\* only if it was activated after the touch had been held for 200 ms.
C16_OneGestureAfterLongPress ==
    /\ Cardinality(ActiveGestures) <= 1
    /\ platform = "android" =>
           \A g \in {"dragEvent", "dragToCreate"} :
               g \in ActiveGestures => gestures[g].activatedAt >= 200

\* C16 witness: on Android the drag-event gesture is active after a hold of
\* 200 ms and the other two gestures are cancelled.
C16_Witness ==
    /\ platform = "android"
    /\ gestures["dragEvent"].state = "active"
    /\ gestures["dragEvent"].activatedAt = 200
    /\ gestures["pinch"].state = "cancelled"
    /\ gestures["dragToCreate"].state = "cancelled"

\* ------------------------------------------------------------------------
\* The anchor month inside the grid (SpecMonth)
\* ------------------------------------------------------------------------
\* The day numbers of the days of the anchor month.
AnchorMonthDays ==
    {n \in FirstOfAnchorMonth..(FirstOfAnchorMonth + 30) :
        CivilFromDays(n).month = CivilFromDays(FirstOfAnchorMonth).month}

\* The cells of the grid that show day number n.
CellsOfDay(n) == {i \in 1..Len(monthData) : CellDay(i) = n}

\* The cells of the grid flagged isCurrentMonth, and those flagged isToday.
CurrentMonthCells == {i \in 1..Len(monthData) : monthData[i].isCurrentMonth}

TodayCells == {i \in 1..Len(monthData) : monthData[i].isToday}

\* C21: for every anchor month (28 to 31 days) and every configured first
\* day of week, the 42-cell grid contains every day of the anchor month
\* exactly once; the cells flagged isCurrentMonth are exactly those days and
\* form one contiguous run, and at most one cell is flagged isToday.
C21_MonthOnceInGrid ==
    mounted =>
        /\ Len(monthData) = 42
        /\ Cardinality(AnchorMonthDays) \in 28..31
        /\ \A n \in AnchorMonthDays : Cardinality(CellsOfDay(n)) = 1
        /\ \A i \in 1..Len(monthData) :
               monthData[i].isCurrentMonth <=> CellDay(i) \in AnchorMonthDays
        /\ \A i \in CurrentMonthCells : \A k \in CurrentMonthCells :
               \A j \in i..k : j \in CurrentMonthCells
        /\ Cardinality(TodayCells) <= 1

\* C21 witness: a rendered grid of a 29-day month with cells of the previous
\* month before the run, cells of the next month after it, and one cell
\* flagged isToday inside the run.
C21_Witness ==
    /\ mounted
    /\ Len(monthData) = 42
    /\ Cardinality(AnchorMonthDays) = 29
    /\ ~monthData[1].isCurrentMonth
    /\ ~monthData[42].isCurrentMonth
    /\ \E i \in CurrentMonthCells : monthData[i].isToday

====
